---- MODULE Spec2Model ----
(***************************************************************************)
(* Model of the attendance processor (src/attendance_processor.py): the    *)
(* time utilities, the duration engine (calculate_duration, deduct_breaks, *)
(* apply_grace_time), the pair loop of calculate_working_hours, the punch  *)
(* analysis, the cross-midnight reconciliation and the batch run.          *)
(*                                                                         *)
(* A datetime.time value is a record [hour, minute]; every comparison the  *)
(* code makes on it goes through time_to_minutes, as in the source.        *)
(***************************************************************************)
EXTENDS Integers, Sequences, FiniteSets, TLC

VARIABLES
    rules,          \* CATEGORY_RULES['Cont Worked']
    shift_config,   \* SHIFTS['Shift'] (also the shift_config argument of apply_grace_time)
    called,         \* the operation that has run ("none" before any call)
    args,           \* the arguments of that call
    result,         \* what the call returned
    pc,             \* the position of the batch run (process)
    employees,      \* self.employees: employee code -> record
    emp_order,      \* the keys of self.employees in insertion order
    todo,           \* the keys the loop of process has still to visit
    report          \* the rows generate_excel has written

vars == <<rules, shift_config, called, args, result, pc, employees, emp_order, todo, report>>

configuration == <<rules, shift_config>>

batch == <<pc, employees, emp_order, todo, report>>

call == <<called, args, result>>

----------------------------------------------------------------------------
(* Time utilities *)

time(h, m) == [hour |-> h, minute |-> m]

time_to_minutes(t) == t.hour * 60 + t.minute

max(a, b) == IF a >= b THEN a ELSE b

min(a, b) == IF a <= b THEN a ELSE b

\* the time of day that is m minutes after midnight
at(m) == time(m \div 60, m % 60)

----------------------------------------------------------------------------
(* Shift configuration and category rules *)

SHIFTS_General == [begin_time |-> time(9, 0), end_time |-> time(18, 0), breaks |-> <<>>]

SHIFTS_Maintenance == [begin_time |-> time(7, 0), end_time |-> time(16, 1), breaks |-> <<>>]

SHIFTS_Shift ==
    [begin_time |-> time(9, 0), end_time |-> time(20, 30),
     breaks |-> << <<time(10, 45), time(11, 0)>>,
                   <<time(13, 0), time(13, 30)>>,
                   <<time(15, 45), time(16, 0)>>,
                   <<time(20, 30), time(21, 0)>> >>]

CATEGORY_RULES_ContWorked ==
    [grace_late_coming |-> 10, grace_early_going |-> 10,
     deduct_break_hours |-> TRUE, allow_midnight_shift |-> TRUE]

\* The configurations the model runs under: the three of the source, a shift
\* that crosses midnight, and a shift whose first break starts with the shift.
ShiftConfigs ==
    { SHIFTS_Shift, SHIFTS_General, SHIFTS_Maintenance,
      [begin_time |-> time(22, 0), end_time |-> time(6, 0), breaks |-> <<>>],
      [begin_time |-> time(9, 0), end_time |-> time(20, 30),
       breaks |-> << <<time(9, 0), time(9, 15)>>, <<time(20, 15), time(20, 30)>> >>] }

RuleSets ==
    { CATEGORY_RULES_ContWorked,
      [CATEGORY_RULES_ContWorked EXCEPT !.allow_midnight_shift = FALSE],
      [CATEGORY_RULES_ContWorked EXCEPT !.deduct_break_hours = FALSE],
      [CATEGORY_RULES_ContWorked EXCEPT !.grace_late_coming = 0, !.grace_early_going = 0] }

----------------------------------------------------------------------------
(* Duration engine *)

calculate_duration_no_flag(entry_time, exit_time) ==
    LET entry_minutes == time_to_minutes(entry_time)
        exit_minutes == time_to_minutes(exit_time)
    IN  IF exit_minutes >= entry_minutes
        THEN exit_minutes - entry_minutes
        ELSE (24 * 60 - entry_minutes) + exit_minutes

calculate_duration_short_day(entry_time, exit_time) ==
    LET entry_minutes == time_to_minutes(entry_time)
        exit_minutes == time_to_minutes(exit_time)
    IN  IF exit_minutes >= entry_minutes
        THEN exit_minutes - entry_minutes
        ELSE IF rules.allow_midnight_shift
             THEN (23 * 60 + 59 - entry_minutes) + exit_minutes
             ELSE 0

calculate_duration(entry_time, exit_time) ==
    LET entry_minutes == time_to_minutes(entry_time)
        exit_minutes == time_to_minutes(exit_time)
        allow_midnight == rules.allow_midnight_shift
    IN  IF exit_minutes >= entry_minutes
        THEN exit_minutes - entry_minutes
        ELSE IF allow_midnight
             THEN (24 * 60 - entry_minutes) + exit_minutes
             ELSE 0

\* one iteration of the loop over the break windows (lines 119-131)
break_overlap(entry_mins, exit_mins, brk) ==
    LET break_start_mins == time_to_minutes(brk[1])
        break_end_mins == time_to_minutes(brk[2])
        overlap_start == max(break_start_mins, entry_mins)
        overlap_end == min(break_end_mins, exit_mins)
    IN  IF break_start_mins >= entry_mins /\ break_end_mins <= exit_mins
        THEN break_end_mins - break_start_mins
        ELSE IF break_start_mins < exit_mins /\ break_end_mins > entry_mins
             THEN IF overlap_end > overlap_start
                  THEN overlap_end - overlap_start
                  ELSE 0
             ELSE 0

RECURSIVE sum_breaks(_, _, _, _)
sum_breaks(entry_mins, exit_mins, breaks, n) ==
    IF n = 0
    THEN 0
    ELSE sum_breaks(entry_mins, exit_mins, breaks, n - 1)
         + break_overlap(entry_mins, exit_mins, breaks[n])

deduct_breaks(entry_time, exit_time, breaks) ==
    LET entry_mins == time_to_minutes(entry_time)
        exit0 == time_to_minutes(exit_time)
        exit_mins == IF exit0 < entry_mins THEN exit0 + 24 * 60 ELSE exit0
    IN  sum_breaks(entry_mins, exit_mins, breaks, Len(breaks))

apply_grace_time_strict(entry_time, exit_time, config, rls) ==
    LET entry0 == time_to_minutes(entry_time)
        exit0 == time_to_minutes(exit_time)
        shift_start_mins == time_to_minutes(config.begin_time)
        shift_end0 == time_to_minutes(config.end_time)
        exit1 == IF exit0 < entry0 THEN exit0 + 24 * 60 ELSE exit0
        shift_end_mins == IF shift_end0 < shift_start_mins
                          THEN shift_end0 + 24 * 60 ELSE shift_end0
        entry_mins == IF entry0 > shift_start_mins
                         /\ entry0 - shift_start_mins < rls.grace_late_coming
                      THEN shift_start_mins ELSE entry0
        exit_mins == IF exit1 < shift_end_mins
                        /\ shift_end_mins - exit1 < rls.grace_early_going
                     THEN shift_end_mins ELSE exit1
    IN  max(0, exit_mins - entry_mins)

\* the two comparisons with the shift turned round: an early arrival and a late
\* departure within grace are cut back to the shift
apply_grace_time_reversed(entry_time, exit_time, config, rls) ==
    LET entry0 == time_to_minutes(entry_time)
        exit0 == time_to_minutes(exit_time)
        shift_start_mins == time_to_minutes(config.begin_time)
        shift_end0 == time_to_minutes(config.end_time)
        exit1 == IF exit0 < entry0 THEN exit0 + 24 * 60 ELSE exit0
        shift_end_mins == IF shift_end0 < shift_start_mins
                          THEN shift_end0 + 24 * 60 ELSE shift_end0
        entry_mins == IF entry0 < shift_start_mins
                         /\ shift_start_mins - entry0 <= rls.grace_late_coming
                      THEN shift_start_mins ELSE entry0
        exit_mins == IF exit1 > shift_end_mins
                        /\ exit1 - shift_end_mins <= rls.grace_early_going
                     THEN shift_end_mins ELSE exit1
    IN  max(0, exit_mins - entry_mins)

apply_grace_time(entry_time, exit_time, config, rls) ==
    LET grace_late == rls.grace_late_coming
        grace_early == rls.grace_early_going
        entry0 == time_to_minutes(entry_time)
        exit0 == time_to_minutes(exit_time)
        shift_start_mins == time_to_minutes(config.begin_time)
        shift_end0 == time_to_minutes(config.end_time)
        exit1 == IF exit0 < entry0 THEN exit0 + 24 * 60 ELSE exit0
        shift_end_mins == IF shift_end0 < shift_start_mins
                          THEN shift_end0 + 24 * 60 ELSE shift_end0
        entry_mins == IF entry0 > shift_start_mins
                         /\ entry0 - shift_start_mins <= grace_late
                      THEN shift_start_mins ELSE entry0
        exit_mins == IF exit1 < shift_end_mins
                        /\ shift_end_mins - exit1 <= grace_early
                     THEN shift_end_mins ELSE exit1
    IN  max(0, exit_mins - entry_mins)

----------------------------------------------------------------------------
(* The body of the pair loop of calculate_working_hours *)

reference_time == time(9, 0)

pair_minutes(entry0, exit_time, use_reference) ==
    LET reference_mins == time_to_minutes(reference_time)
        entry == IF use_reference /\ time_to_minutes(entry0) < reference_mins
                 THEN reference_time ELSE entry0
        raw == calculate_duration(entry, exit_time)
        deduct == rules.deduct_break_hours
        break_mins == IF deduct
                      THEN deduct_breaks(entry, exit_time, shift_config.breaks)
                      ELSE 0
        duration1 == raw - break_mins
        grace_adjusted == apply_grace_time(entry, exit_time, shift_config, rules)
        duration2 == IF grace_adjusted > 0
                     THEN grace_adjusted - break_mins
                     ELSE duration1
    IN  [entry |-> entry, exit |-> exit_time, raw |-> raw,
         break_mins |-> break_mins, grace_adjusted |-> grace_adjusted,
         duration |-> duration2,
         credited |-> IF duration2 > 0 THEN duration2 ELSE 0]

----------------------------------------------------------------------------
(* Inputs of the duration engine *)

WallTimes ==
    { at(m) : m \in { 0, 1, 355, 360, 435, 530, 539, 540, 541, 545, 550, 551, 645,
                      660, 720, 1020, 1080, 1202, 1219, 1220, 1225, 1230, 1236,
                      1237, 1260, 1320, 1325, 1439 } }

\* break lists handed to deduct_breaks: the configured ones, those of the
\* tests, and lists parse_breaks returns for a --breaks argument
BreakLists ==
    { <<>>,
      SHIFTS_Shift.breaks,
      << <<time(10, 45), time(11, 0)>>, <<time(15, 45), time(16, 0)>> >>,
      << <<time(10, 30), time(11, 0)>>, <<time(13, 0), time(13, 30)>> >>,
      << <<time(9, 0), time(12, 0)>>, <<time(10, 45), time(11, 0)>> >>,
      << <<time(11, 0), time(10, 45)>> >>,
      << <<time(23, 0), time(1, 0)>> >>,
      << <<time(0, 0), time(0, 30)>>, <<time(9, 0), time(9, 0)>> >> }

\* no batch run is under way
NoBatch ==
    /\ pc = "idle"
    /\ employees = <<>>
    /\ emp_order = <<>>
    /\ todo = <<>>
    /\ report = <<>>

InitConfig ==
    /\ rules \in RuleSets
    /\ shift_config \in ShiftConfigs
    /\ called = "none"
    /\ args = [op |-> "none"]
    /\ result = 0
    /\ NoBatch

CalculateDuration ==
    /\ called = "none"
    /\ \E e \in WallTimes, x \in WallTimes :
          /\ args' = [entry_time |-> e, exit_time |-> x]
          /\ result' = calculate_duration(e, x)
    /\ called' = "calculate_duration"
    /\ UNCHANGED <<configuration, batch>>

DeductBreaks ==
    /\ called = "none"
    /\ \E e \in WallTimes, x \in WallTimes, b \in BreakLists :
          /\ args' = [entry_time |-> e, exit_time |-> x, breaks |-> b]
          /\ result' = deduct_breaks(e, x, b)
    /\ called' = "deduct_breaks"
    /\ UNCHANGED <<configuration, batch>>

ApplyGraceTime ==
    /\ called = "none"
    /\ \E e \in WallTimes, x \in WallTimes :
          /\ args' = [entry_time |-> e, exit_time |-> x]
          /\ result' = apply_grace_time(e, x, shift_config, rules)
    /\ called' = "apply_grace_time"
    /\ UNCHANGED <<configuration, batch>>

\* one pass of the pair loop (calculate_punches.py runs it on the punches as
\* parsed, calculate_working_hours on the deduplicated ones)
PairLoop ==
    /\ called = "none"
    /\ \E e \in WallTimes, x \in WallTimes, use_reference \in BOOLEAN :
          /\ args' = [entry_time |-> e, exit_time |-> x, use_reference |-> use_reference]
          /\ result' = pair_minutes(e, x, use_reference)
    /\ called' = "pair_loop"
    /\ UNCHANGED <<configuration, batch>>

\* SHIFTS['Shift'] and CATEGORY_RULES['Cont Worked'] are shift_config and rules
calculate_cross_midnight_hours(entry_time, exit_time) ==
    LET duration == calculate_duration(entry_time, exit_time)
        break_mins == IF rules.deduct_break_hours
                      THEN deduct_breaks(entry_time, exit_time, shift_config.breaks)
                      ELSE 0
    IN  max(0, duration - break_mins)

CalculateCrossMidnightHours ==
    /\ called = "none"
    /\ \E e \in WallTimes, x \in WallTimes :
          /\ args' = [entry_time |-> e, exit_time |-> x]
          /\ result' = calculate_cross_midnight_hours(e, x)
    /\ called' = "calculate_cross_midnight_hours"
    /\ UNCHANGED <<configuration, batch>>

NextPair ==
    \/ CalculateDuration
    \/ DeductBreaks
    \/ ApplyGraceTime
    \/ PairLoop
    \/ CalculateCrossMidnightHours

SpecPair == InitConfig /\ [][NextPair]_vars

----------------------------------------------------------------------------
(* Punch sequences: deduplication, pair-by-pair mode, total-span mode *)

Range(f) == { f[i] : i \in DOMAIN f }

\* a punch is compared with the punch kept last only
RECURSIVE dedup_loop_adjacent(_, _)
dedup_loop_adjacent(punches, n) ==
    IF n = 0
    THEN <<>>
    ELSE LET deduplicated == dedup_loop_adjacent(punches, n - 1)
         IN  IF deduplicated = <<>> \/ deduplicated[Len(deduplicated)] # punches[n]
             THEN Append(deduplicated, punches[n])
             ELSE deduplicated

\* a punch found in seen is dropped and taken out of seen again
RECURSIVE dedup_loop_forgetful(_, _)
dedup_loop_forgetful(punches, n) ==
    IF n = 0
    THEN <<>>
    ELSE LET deduplicated == dedup_loop_forgetful(punches, n - 1)
         IN  IF Cardinality({ i \in 1..(n - 1) : punches[i] = punches[n] }) % 2 = 0
             THEN Append(deduplicated, punches[n])
             ELSE deduplicated

\* the list deduplicated holds after the first n punches were looked at;
\* seen is the set of its elements
RECURSIVE dedup_loop(_, _)
dedup_loop(punches, n) ==
    IF n = 0
    THEN <<>>
    ELSE LET deduplicated == dedup_loop(punches, n - 1)
         IN  IF punches[n] \notin Range(deduplicated)
             THEN Append(deduplicated, punches[n])
             ELSE deduplicated

\* the punches are paired as they were recorded
deduplicate_skipped(punches) == punches

deduplicate(punches) == dedup_loop(punches, Len(punches))

\* for i in range(0, len(deduplicated) - 1, 1), a loop that slides by one punch
RECURSIVE sum_pairs_sliding(_, _, _)
sum_pairs_sliding(deduplicated, i, use_reference) ==
    IF i >= Len(deduplicated) - 1
    THEN 0
    ELSE pair_minutes(deduplicated[i + 1], deduplicated[i + 2], use_reference).credited
         + sum_pairs_sliding(deduplicated, i + 1, use_reference)

\* for i in range(0, len(deduplicated) - 1, 2), from index i on (0-based)
RECURSIVE sum_pairs(_, _, _)
sum_pairs(deduplicated, i, use_reference) ==
    IF i >= Len(deduplicated) - 1
    THEN 0
    ELSE pair_minutes(deduplicated[i + 1], deduplicated[i + 2], use_reference).credited
         + sum_pairs(deduplicated, i + 2, use_reference)

calculate_working_hours(punches, day) ==
    IF Len(punches) < 2
    THEN 0
    ELSE LET deduplicated == deduplicate(punches)
         IN  IF Len(deduplicated) < 2
             THEN 0
             ELSE max(0, sum_pairs(deduplicated, 0, day = "day1"))

\* the span ends at the punch recorded last, repeated or not
calculate_working_hours_total_span_recorded(punches, day) ==
    IF Len(punches) < 2
    THEN 0
    ELSE LET reference_mins == time_to_minutes(reference_time)
             at_or_after_reference(punch) == time_to_minutes(punch) >= reference_mins
             deduplicated == IF day = "day1"
                             THEN SelectSeq(deduplicate(punches), at_or_after_reference)
                             ELSE deduplicate(punches)
         IN  IF Len(deduplicated) < 2
             THEN 0
             ELSE LET first_punch == deduplicated[1]
                      last_punch == punches[Len(punches)]
                      total_duration == calculate_duration(first_punch, last_punch)
                      break_mins == IF rules.deduct_break_hours
                                    THEN deduct_breaks(first_punch, last_punch, shift_config.breaks)
                                    ELSE 0
                  IN  max(0, total_duration - break_mins)

calculate_working_hours_total_span(punches, day) ==
    IF Len(punches) < 2
    THEN 0
    ELSE LET reference_mins == time_to_minutes(reference_time)
             at_or_after_reference(punch) == time_to_minutes(punch) >= reference_mins
             deduplicated == IF day = "day1"
                             THEN SelectSeq(deduplicate(punches), at_or_after_reference)
                             ELSE deduplicate(punches)
         IN  IF Len(deduplicated) < 2
             THEN 0
             ELSE LET first_punch == deduplicated[1]
                      last_punch == deduplicated[Len(deduplicated)]
                      total_duration == calculate_duration(first_punch, last_punch)
                      break_mins == IF rules.deduct_break_hours
                                    THEN deduct_breaks(first_punch, last_punch, shift_config.breaks)
                                    ELSE 0
                  IN  max(0, total_duration - break_mins)

\* the pairs list built by the loop of analyze_punch_pairs, from index i on
RECURSIVE analyze_pairs(_, _, _)
analyze_pairs(deduplicated, i, breaks) ==
    IF i >= Len(deduplicated) - 1
    THEN <<>>
    ELSE LET entry == deduplicated[i + 1]
             exit_time == deduplicated[i + 2]
             duration == calculate_duration(entry, exit_time)
             break_mins == deduct_breaks(entry, exit_time, breaks)
         IN  << [pair_num |-> (i \div 2) + 1,
                 entry |-> entry,
                 exit |-> exit_time,
                 raw_duration_mins |-> duration,
                 breaks_deducted_mins |-> break_mins,
                 final_duration_mins |-> duration - break_mins] >>
             \o analyze_pairs(deduplicated, i + 2, breaks)

RECURSIVE sum_final(_)
sum_final(pairs) ==
    IF pairs = <<>>
    THEN 0
    ELSE (IF Head(pairs).final_duration_mins > 0 THEN Head(pairs).final_duration_mins ELSE 0)
         + sum_final(Tail(pairs))

\* the unpaired punch is always taken for an entry
analyze_punch_pairs_entry(punches, custom_breaks) ==
    IF punches = <<>>
    THEN [total_punches |-> 0, pairs |-> <<>>, unpaired |-> <<>>, total_minutes |-> 0]
    ELSE LET deduplicated == deduplicate(punches)
             breaks == IF custom_breaks # <<>> THEN custom_breaks[1] ELSE shift_config.breaks
             pairs == analyze_pairs(deduplicated, 0, breaks)
             unpaired ==
                 IF Len(deduplicated) % 2 = 1
                 THEN << [punch |-> deduplicated[Len(deduplicated)],
                          position |-> Len(deduplicated),
                          likely_type |-> "Clock IN (entry)"] >>
                 ELSE <<>>
         IN  [total_punches |-> Len(deduplicated),
              complete_pairs |-> Len(pairs),
              pairs |-> pairs,
              unpaired |-> unpaired,
              total_minutes |-> sum_final(pairs),
              breaks_config |-> breaks]

\* custom_breaks is <<>> for None and <<breaks>> for a list of breaks;
\* unpaired is <<>> for None and <<report>> otherwise
analyze_punch_pairs(punches, custom_breaks) ==
    IF punches = <<>>
    THEN [total_punches |-> 0, pairs |-> <<>>, unpaired |-> <<>>, total_minutes |-> 0]
    ELSE LET deduplicated == deduplicate(punches)
             breaks == IF custom_breaks # <<>> THEN custom_breaks[1] ELSE shift_config.breaks
             pairs == analyze_pairs(deduplicated, 0, breaks)
             unpaired ==
                 IF Len(deduplicated) % 2 = 1
                 THEN << [punch |-> deduplicated[Len(deduplicated)],
                          position |-> Len(deduplicated),
                          likely_type |-> IF Len(pairs) % 2 = 0
                                          THEN "Clock IN (entry)"
                                          ELSE "Clock OUT (exit)"] >>
                 ELSE <<>>
         IN  [total_punches |-> Len(deduplicated),
              complete_pairs |-> Len(pairs),
              pairs |-> pairs,
              unpaired |-> unpaired,
              total_minutes |-> sum_final(pairs),
              breaks_config |-> breaks]

MaxPunches == 4

PunchTimes == { time(0, 1), time(8, 50), time(9, 5), time(13, 15), time(20, 25), time(22, 0) }

PunchLists == UNION { [1..n -> PunchTimes] : n \in 0..MaxPunches }

\* the punch string of the usage example of --analyze-punches
ExamplePunches ==
    << time(9, 0), time(9, 0), time(10, 45), time(11, 0),
       time(15, 45), time(16, 0), time(20, 2), time(20, 36) >>

\* the lists of punches analysed: the short lists, the usage example and the
\* punch strings it begins with
AnalysedLists ==
    PunchLists \cup { SubSeq(ExamplePunches, 1, n) : n \in 0..Len(ExamplePunches) }

\* values of custom_breaks: None, the empty list of --breaks '', the list of
\* the usage example and a list of two windows that overlap
CustomBreaks ==
    { <<>>,
      << <<>> >>,
      << << <<time(10, 30), time(11, 0)>>, <<time(13, 0), time(13, 30)>> >> >>,
      << << <<time(9, 0), time(14, 0)>>, <<time(10, 0), time(13, 0)>> >> >> }

Days == { "day1", "day2" }

InitPunches ==
    /\ rules \in RuleSets
    /\ shift_config \in { SHIFTS_Shift,
                          [SHIFTS_Shift EXCEPT !.breaks = << <<time(9, 0), time(9, 15)>> >>] }
    /\ called = "none"
    /\ args = [op |-> "none"]
    /\ result = 0
    /\ NoBatch

\* the deduplication step the three functions on punch lists begin with
Deduplicate ==
    /\ called = "none"
    /\ \E punches \in PunchLists :
          /\ args' = [punches |-> punches]
          /\ result' = deduplicate(punches)
    /\ called' = "deduplicate"
    /\ UNCHANGED <<configuration, batch>>

CalculateWorkingHours ==
    /\ called = "none"
    /\ \E punches \in PunchLists, day \in Days :
          /\ args' = [punches |-> punches, day |-> day]
          /\ result' = calculate_working_hours(punches, day)
    /\ called' = "calculate_working_hours"
    /\ UNCHANGED <<configuration, batch>>

CalculateWorkingHoursTotalSpan ==
    /\ called = "none"
    /\ \E punches \in PunchLists, day \in Days :
          /\ args' = [punches |-> punches, day |-> day]
          /\ result' = calculate_working_hours_total_span(punches, day)
    /\ called' = "calculate_working_hours_total_span"
    /\ UNCHANGED <<configuration, batch>>

AnalyzePunchPairs ==
    /\ called = "none"
    /\ \E punches \in AnalysedLists, custom_breaks \in CustomBreaks :
          /\ args' = [punches |-> punches, custom_breaks |-> custom_breaks]
          /\ result' = analyze_punch_pairs(punches, custom_breaks)
    /\ called' = "analyze_punch_pairs"
    /\ UNCHANGED <<configuration, batch>>

NextPunches ==
    \/ Deduplicate
    \/ CalculateWorkingHours
    \/ CalculateWorkingHoursTotalSpan
    \/ AnalyzePunchPairs

SpecPunches == InitPunches /\ [][NextPunches]_vars

----------------------------------------------------------------------------
(* Cross-midnight reconciliation *)

midnight_boundary == time(7, 15)

\* the record lists every punch of day 2, not only the early ones
detect_cross_midnight_shift_whole_day(day1_punches, day2_punches) ==
    IF day1_punches = <<>> \/ day2_punches = <<>>
    THEN [day1_punches |-> day1_punches, day2_punches |-> day2_punches, cross_info |-> <<>>]
    ELSE LET boundary_mins == time_to_minutes(midnight_boundary)
             early(punch) == time_to_minutes(punch) < boundary_mins
             remaining(punch) == ~(time_to_minutes(punch) < boundary_mins)
             day2_early_punches == SelectSeq(day2_punches, early)
             day2_remaining_punches == SelectSeq(day2_punches, remaining)
         IN  IF day2_early_punches # <<>>
             THEN [day1_punches |-> day1_punches \o day2_early_punches,
                   day2_punches |-> day2_remaining_punches,
                   cross_info |-> << [early_morning_punches |-> day2_punches,
                                      is_cross_midnight |-> TRUE,
                                      shifted_to_day1 |-> TRUE] >>]
             ELSE [day1_punches |-> day1_punches, day2_punches |-> day2_punches,
                   cross_info |-> <<>>]

\* the punches moved to day 1 are left in the list of day 2 as well
detect_cross_midnight_shift_copying(day1_punches, day2_punches) ==
    IF day1_punches = <<>> \/ day2_punches = <<>>
    THEN [day1_punches |-> day1_punches, day2_punches |-> day2_punches, cross_info |-> <<>>]
    ELSE LET boundary_mins == time_to_minutes(midnight_boundary)
             early(punch) == time_to_minutes(punch) < boundary_mins
             day2_early_punches == SelectSeq(day2_punches, early)
         IN  IF day2_early_punches # <<>>
             THEN [day1_punches |-> day1_punches \o day2_early_punches,
                   day2_punches |-> day2_punches,
                   cross_info |-> << [early_morning_punches |-> day2_early_punches,
                                      is_cross_midnight |-> TRUE,
                                      shifted_to_day1 |-> TRUE] >>]
             ELSE [day1_punches |-> day1_punches, day2_punches |-> day2_punches,
                   cross_info |-> <<>>]

\* without the early return for an empty list
detect_cross_midnight_shift_unguarded(day1_punches, day2_punches) ==
    LET boundary_mins == time_to_minutes(midnight_boundary)
        early(punch) == time_to_minutes(punch) < boundary_mins
        remaining(punch) == ~(time_to_minutes(punch) < boundary_mins)
        day2_early_punches == SelectSeq(day2_punches, early)
        day2_remaining_punches == SelectSeq(day2_punches, remaining)
    IN  IF day2_early_punches # <<>>
        THEN [day1_punches |-> day1_punches \o day2_early_punches,
              day2_punches |-> day2_remaining_punches,
              cross_info |-> << [early_morning_punches |-> day2_early_punches,
                                 is_cross_midnight |-> TRUE,
                                 shifted_to_day1 |-> TRUE] >>]
        ELSE [day1_punches |-> day1_punches, day2_punches |-> day2_punches,
              cross_info |-> <<>>]

\* cross_info is <<>> for None and <<info>> otherwise
detect_cross_midnight_shift(day1_punches, day2_punches) ==
    IF day1_punches = <<>> \/ day2_punches = <<>>
    THEN [day1_punches |-> day1_punches, day2_punches |-> day2_punches, cross_info |-> <<>>]
    ELSE LET boundary_mins == time_to_minutes(midnight_boundary)
             early(punch) == time_to_minutes(punch) < boundary_mins
             remaining(punch) == ~(time_to_minutes(punch) < boundary_mins)
             day2_early_punches == SelectSeq(day2_punches, early)
             day2_remaining_punches == SelectSeq(day2_punches, remaining)
         IN  IF day2_early_punches # <<>>
             THEN [day1_punches |-> day1_punches \o day2_early_punches,
                   day2_punches |-> day2_remaining_punches,
                   cross_info |-> << [early_morning_punches |-> day2_early_punches,
                                      is_cross_midnight |-> TRUE,
                                      shifted_to_day1 |-> TRUE] >>]
             ELSE [day1_punches |-> day1_punches, day2_punches |-> day2_punches,
                   cross_info |-> <<>>]

MaxDay1 == 2

MaxDay2 == 3

Day1Times == { time(6, 0), time(9, 0), time(20, 37) }

Day2Times == { time(0, 0), time(0, 1), time(6, 30), time(7, 14), time(7, 15), time(7, 16), time(9, 0) }

InitReconcile ==
    /\ rules = CATEGORY_RULES_ContWorked
    /\ shift_config = SHIFTS_Shift
    /\ called = "none"
    /\ args = [op |-> "none"]
    /\ result = 0
    /\ NoBatch

DetectCrossMidnightShift ==
    /\ called = "none"
    /\ \E day1_punches \in UNION { [1..n -> Day1Times] : n \in 0..MaxDay1 },
          day2_punches \in UNION { [1..n -> Day2Times] : n \in 0..MaxDay2 } :
          /\ args' = [day1_punches |-> day1_punches, day2_punches |-> day2_punches]
          /\ result' = detect_cross_midnight_shift(day1_punches, day2_punches)
    /\ called' = "detect_cross_midnight_shift"
    /\ UNCHANGED <<configuration, batch>>

NextReconcile == DetectCrossMidnightShift

SpecReconcile == InitReconcile /\ [][NextReconcile]_vars

----------------------------------------------------------------------------
(* The batch run: read_attendance_file, process, generate_excel.             *)
(* An employee code is modelled by its number (EW00029 is 29) and the empty  *)
(* code by 0; a row of a file carries the code, the punches as               *)
(* parse_punch_records returns them, and the status. The name, company and   *)
(* department columns take no part in any computation and are left out.      *)

\* cross_day_shift is <<>> for None and <<info>> otherwise
new_employee ==
    [day1_punches |-> <<>>, day2_punches |-> <<>>,
     day1_hours |-> 0, day2_hours |-> 0, total_hours |-> 0,
     cross_day_shift |-> <<>>]

\* self.employees[emp_code], which creates the record when it is missing
lookup(emps, emp_code) ==
    IF emp_code \in DOMAIN emps.data
    THEN emps
    ELSE [data |-> (emp_code :> new_employee) @@ emps.data,
          order |-> Append(emps.order, emp_code)]

read_row(emps, row, day_key) ==
    IF row.emp_code = 0 \/ row.status = "Not Present"
    THEN emps
    ELSE LET punches == row.punches
             hours == calculate_working_hours_total_span(punches, day_key)
             present == lookup(emps, row.emp_code)
         IN  [present EXCEPT
                 !.data[row.emp_code] =
                     IF day_key = "day1"
                     THEN [@ EXCEPT !.day1_punches = punches, !.day1_hours = hours]
                     ELSE [@ EXCEPT !.day2_punches = punches, !.day2_hours = hours]]

RECURSIVE read_rows(_, _, _, _)
read_rows(emps, rows, n, day_key) ==
    IF n = 0
    THEN emps
    ELSE read_row(read_rows(emps, rows, n - 1, day_key), rows[n], day_key)

read_attendance_file(emps, rows, day_key) == read_rows(emps, rows, Len(rows), day_key)

early_boundary == time(7, 30)

\* the filter of process over the day 1 punches (lines 731-741)
RECURSIVE filter_day1(_)
filter_day1(day1_punches) ==
    IF day1_punches = <<>>
    THEN <<>>
    ELSE LET punch == Head(day1_punches)
             punch_mins == time_to_minutes(punch)
         IN  (IF punch_mins >= time_to_minutes(early_boundary)
              THEN IF punch_mins < time_to_minutes(reference_time)
                   THEN <<reference_time>>
                   ELSE <<punch>>
              ELSE <<>>)
             \o filter_day1(Tail(day1_punches))

\* one iteration of the loop of process over the employees (lines 721-766)
process_employee(emp) ==
    LET detected == detect_cross_midnight_shift(emp.day1_punches, emp.day2_punches)
        day1_punches == detected.day1_punches
        day2_punches == detected.day2_punches
        cross_info == detected.cross_info
        boundary_mins == time_to_minutes(midnight_boundary)
        day1_filtered == filter_day1(day1_punches)
        early(punch) == time_to_minutes(punch) <= boundary_mins
        remaining(punch) == ~(time_to_minutes(punch) <= boundary_mins)
        day2_early_punches == SelectSeq(day2_punches, early)
        day2_remaining_punches == SelectSeq(day2_punches, remaining)
        combined_punches == day1_filtered \o day2_early_punches
    IN  [emp EXCEPT
            !.day1_punches = day1_punches,
            !.day2_punches = day2_punches,
            !.day1_hours = IF Len(combined_punches) >= 2
                           THEN calculate_working_hours_total_span(combined_punches, "day1")
                           ELSE @,
            !.day2_hours = IF Len(combined_punches) >= 2
                           THEN @
                           ELSE calculate_working_hours_total_span(day2_remaining_punches, "day2"),
            !.cross_day_shift = IF cross_info # <<>> THEN cross_info ELSE @]

\* round(minutes / 60, 2), in hundredths of an hour
minutes_to_decimal_hours(minutes) == (5 * minutes + 1) \div 3

\* the rows generate_excel writes, in the order of sorted(self.employees.keys())
\* the total is the sum of the two days
generate_excel_sum(emps) ==
    LET before(a, b) == a < b
        emitted(emp_code) == ~(emps[emp_code].day1_hours = 0 /\ emps[emp_code].day2_hours = 0)
        codes == SelectSeq(SortSeq(emp_order, before), emitted)
    IN  [i \in 1..Len(codes) |->
            LET emp == emps[codes[i]]
                day1_hours_decimal == minutes_to_decimal_hours(emp.day1_hours)
                day2_hours_decimal == minutes_to_decimal_hours(emp.day2_hours)
            IN  [emp_code |-> codes[i],
                 day1_punches |-> emp.day1_punches,
                 day1_hours |-> day1_hours_decimal,
                 day2_punches |-> emp.day2_punches,
                 day2_hours |-> day2_hours_decimal,
                 total_hours |-> day1_hours_decimal + day2_hours_decimal]]

generate_excel(emps) ==
    LET before(a, b) == a < b
        emitted(emp_code) == ~(emps[emp_code].day1_hours = 0 /\ emps[emp_code].day2_hours = 0)
        codes == SelectSeq(SortSeq(emp_order, before), emitted)
    IN  [i \in 1..Len(codes) |->
            LET emp == emps[codes[i]]
                day1_hours_decimal == minutes_to_decimal_hours(emp.day1_hours)
                day2_hours_decimal == minutes_to_decimal_hours(emp.day2_hours)
            IN  [emp_code |-> codes[i],
                 day1_punches |-> emp.day1_punches,
                 day1_hours |-> day1_hours_decimal,
                 day2_punches |-> emp.day2_punches,
                 day2_hours |-> day2_hours_decimal,
                 total_hours |-> day1_hours_decimal]]

MaxRows == 2

EmpCodes == { 29, 30 }

Day1Lists ==
    { <<time(9, 0), time(20, 37)>>,
      <<time(8, 0), time(13, 15), time(18, 0)>>,
      <<time(6, 0), time(10, 0)>>,
      <<time(9, 0)>> }

Day2Lists ==
    { <<time(0, 0), time(9, 10), time(18, 0)>>,
      <<time(0, 1), time(0, 1), time(6, 30)>>,
      <<time(7, 15), time(9, 0), time(17, 0)>>,
      <<time(9, 0), time(18, 0)>> }

Rows(lists) ==
    { [emp_code |-> c, punches |-> p, status |-> "Present"] : c \in EmpCodes, p \in lists }
    \cup { [emp_code |-> 29, punches |-> <<>>, status |-> "Not Present"],
           [emp_code |-> 0, punches |-> <<time(9, 0), time(18, 0)>>, status |-> "Present"] }

Files(lists) == UNION { [1..n -> Rows(lists)] : n \in 0..MaxRows }

Init ==
    /\ rules = CATEGORY_RULES_ContWorked
    /\ shift_config = SHIFTS_Shift
    /\ called = "none"
    /\ args = [op |-> "none"]
    /\ result = 0
    /\ pc = "read_day1"
    /\ employees = <<>>
    /\ emp_order = <<>>
    /\ todo = <<>>
    /\ report = <<>>

ReadDay1 ==
    /\ pc = "read_day1"
    /\ \E day1_file \in Files(Day1Lists) :
          LET emps == read_attendance_file([data |-> employees, order |-> emp_order],
                                           day1_file, "day1")
          IN  /\ employees' = emps.data
              /\ emp_order' = emps.order
    /\ pc' = "read_day2"
    /\ UNCHANGED <<configuration, call, todo, report>>

ReadDay2 ==
    /\ pc = "read_day2"
    /\ \E day2_file \in Files(Day2Lists) :
          LET emps == read_attendance_file([data |-> employees, order |-> emp_order],
                                           day2_file, "day2")
          IN  /\ employees' = emps.data
              /\ emp_order' = emps.order
              /\ todo' = emps.order
    /\ pc' = "process"
    /\ UNCHANGED <<configuration, call, report>>

\* one iteration of the loop of process, for the next key of self.employees
ProcessEmployee ==
    /\ pc = "process"
    /\ todo # <<>>
    /\ employees' = [employees EXCEPT ![Head(todo)] = process_employee(@)]
    /\ todo' = Tail(todo)
    /\ UNCHANGED <<configuration, call, pc, emp_order, report>>

GenerateExcel ==
    /\ pc = "process"
    /\ todo = <<>>
    /\ report' = generate_excel(employees)
    /\ pc' = "done"
    /\ UNCHANGED <<configuration, call, employees, emp_order, todo>>

Next == ReadDay1 \/ ReadDay2 \/ ProcessEmployee \/ GenerateExcel

Spec == Init /\ [][Next]_vars

----------------------------------------------------------------------------
(* The batch run as one call: both files are read and every employee is    *)
(* processed, in the order of the keys of self.employees.                  *)

\* the day-1 total of the employee processed before is written to the next one
RECURSIVE process_loop_carrying(_, _, _)
process_loop_carrying(data, order, n) ==
    IF n = 0
    THEN data
    ELSE LET done == process_loop_carrying(data, order, n - 1)
         IN  [done EXCEPT ![order[n]] =
                 process_employee([@ EXCEPT !.day1_hours =
                     IF n > 1 THEN done[order[n - 1]].day1_hours ELSE @])]

\* the loop of process over the first n keys
RECURSIVE process_loop(_, _, _)
process_loop(data, order, n) ==
    IF n = 0
    THEN data
    ELSE LET done == process_loop(data, order, n - 1)
         IN  [done EXCEPT ![order[n]] = process_employee(@)]

\* self.employees after process(day1_file, day2_file, output_file)
process(day1_file, day2_file) ==
    LET read1 == read_attendance_file([data |-> <<>>, order |-> <<>>], day1_file, "day1")
        read2 == read_attendance_file(read1, day2_file, "day2")
    IN  process_loop(read2.data, read2.order, Len(read2.order))

\* rows of two employees, one of them with a shift across midnight
RunRows(lists) ==
    { [emp_code |-> c, punches |-> lists[k], status |-> "Present"] :
          c \in EmpCodes, k \in 1..Len(lists) }
    \cup { [emp_code |-> 30, punches |-> <<>>, status |-> "Not Present"] }

RunFiles(lists) == UNION { [1..n -> RunRows(lists)] : n \in 0..MaxRows }

Process ==
    /\ called = "none"
    /\ \E day1_file \in RunFiles(<< <<time(9, 0), time(20, 37)>>, <<time(9, 0)>> >>),
          day2_file \in RunFiles(<< <<time(0, 0), time(9, 10), time(18, 0)>>,
                                    <<time(9, 0), time(18, 0)>> >>) :
          /\ args' = [day1_file |-> day1_file, day2_file |-> day2_file]
          /\ result' = process(day1_file, day2_file)
    /\ called' = "process"
    /\ UNCHANGED <<configuration, batch>>

NextProcess == Process

SpecProcess == InitReconcile /\ [][NextProcess]_vars

----------------------------------------------------------------------------
(* Parsing of the --breaks argument.  A string is a sequence of lexical    *)
(* units: the separators "," and "-", the blank " ", texts that strptime   *)
(* reads as a time with '%H:%M', and "x" for a text it rejects.            *)

TimeTexts == { "10:45", "11:00" }

Units == { ",", "-", " ", "x" } \cup TimeTexts

\* str.strip: the blanks at both ends are removed
RECURSIVE strip(_)
strip(str) ==
    IF str = <<>> THEN <<>>
    ELSE IF Head(str) = " " THEN strip(Tail(str))
    ELSE IF str[Len(str)] = " " THEN strip(SubSeq(str, 1, Len(str) - 1))
    ELSE str

\* str.split(sep) of the first n units of str
RECURSIVE split_loop(_, _, _)
split_loop(str, sep, n) ==
    IF n = 0
    THEN << <<>> >>
    ELSE LET parts == split_loop(str, sep, n - 1)
         IN  IF str[n] = sep
             THEN Append(parts, <<>>)
             ELSE [parts EXCEPT ![Len(parts)] = Append(@, str[n])]

split(str, sep) == split_loop(str, sep, Len(str))

\* datetime.strptime(text, '%H:%M').time()
strptime(text) ==
    CASE text = "10:45" -> time(10, 45)
      [] text = "11:00" -> time(11, 0)

\* <<>> is None, <<t>> the time read
parse_time(time_str) ==
    LET text == strip(time_str)
    IN  IF Len(text) = 1 /\ text[1] \in TimeTexts
        THEN << strptime(text[1]) >>
        ELSE <<>>

\* [b.strip() for b in pieces if b.strip()]
RECURSIVE stripped_nonblank(_)
stripped_nonblank(pieces) ==
    IF pieces = <<>> THEN <<>>
    ELSE (IF strip(Head(pieces)) # <<>> THEN << strip(Head(pieces)) >> ELSE <<>>)
         \o stripped_nonblank(Tail(pieces))

\* a period that cannot be read is left out and the next one is read
RECURSIVE parse_periods_skipping(_, _)
parse_periods_skipping(break_periods, n) ==
    IF n = 0
    THEN [raised |-> FALSE, breaks |-> <<>>]
    ELSE LET done == parse_periods_skipping(break_periods, n - 1)
             period == break_periods[n]
             parts == split(period, "-")
         IN  IF Len(parts) # 2 \/ parse_time(parts[1]) = <<>> \/ parse_time(parts[2]) = <<>>
             THEN done
             ELSE [done EXCEPT !.breaks =
                      Append(@, << parse_time(parts[1])[1], parse_time(parts[2])[1] >>)]

\* the loop over break_periods; raised is TRUE when a ValueError left the
\* function, and then nothing is returned
RECURSIVE parse_periods(_, _)
parse_periods(break_periods, n) ==
    IF n = 0
    THEN [raised |-> FALSE, breaks |-> <<>>]
    ELSE LET done == parse_periods(break_periods, n - 1)
             period == break_periods[n]
             parts == split(period, "-")
         IN  IF done.raised
             THEN done
             ELSE IF "-" \notin Range(period)
             THEN [raised |-> TRUE, breaks |-> <<>>]
             ELSE IF Len(parts) # 2
             THEN [raised |-> TRUE, breaks |-> <<>>]
             ELSE LET start_time == parse_time(strip(parts[1]))
                      end_time == parse_time(strip(parts[2]))
                  IN  IF start_time = <<>> \/ end_time = <<>>
                      THEN [raised |-> TRUE, breaks |-> <<>>]
                      ELSE [done EXCEPT !.breaks = Append(@, << start_time[1], end_time[1] >>)]

parse_breaks(breaks_str) ==
    IF breaks_str = <<>> \/ strip(breaks_str) = <<>>
    THEN [raised |-> FALSE, breaks |-> <<>>]
    ELSE LET break_periods == stripped_nonblank(split(breaks_str, ","))
         IN  parse_periods(break_periods, Len(break_periods))

\* the handling of --breaks in main: argument is <<>> without --breaks and
\* <<breaks_str>> with it; custom_breaks is <<>> for None
main_breaks(argument) ==
    IF argument = <<>>
    THEN [exit |-> 0, custom_breaks |-> <<>>]
    ELSE IF strip(argument[1]) # <<>>
    THEN LET parsed == parse_breaks(argument[1])
         IN  IF parsed.raised
             THEN [exit |-> 1, custom_breaks |-> <<>>]
             ELSE [exit |-> 0, custom_breaks |-> << parsed.breaks >>]
    ELSE [exit |-> 0, custom_breaks |-> << <<>> >>]

MaxUnits == 6

\* the strings of up to MaxUnits units, and one of two windows
BreakStrings ==
    UNION { [1..n -> Units] : n \in 0..MaxUnits }
    \cup { << "10:45", "-", "11:00", ",", " ", "11:00", "-", "10:45" >> }

InitParse ==
    /\ rules = CATEGORY_RULES_ContWorked
    /\ shift_config = SHIFTS_Shift
    /\ called = "none"
    /\ args = [op |-> "none"]
    /\ result = 0
    /\ NoBatch

ParseBreaks ==
    /\ called = "none"
    /\ \E breaks_str \in BreakStrings :
          /\ args' = [breaks_str |-> breaks_str]
          /\ result' = parse_breaks(breaks_str)
    /\ called' = "parse_breaks"
    /\ UNCHANGED <<configuration, batch>>

MainBreaks ==
    /\ called = "none"
    /\ \E argument \in { <<>> } \cup { << breaks_str >> : breaks_str \in BreakStrings } :
          /\ args' = [argument |-> argument]
          /\ result' = main_breaks(argument)
    /\ called' = "main"
    /\ UNCHANGED <<configuration, batch>>

NextParse == ParseBreaks \/ MainBreaks

SpecParse == InitParse /\ [][NextParse]_vars

----------------------------------------------------------------------------
(* Properties of the duration engine, checked under SpecPair *)

\* the interval intersection of [e, x] with every window of breaks, summed
RECURSIVE intersection_sum(_, _, _)
intersection_sum(e, x, breaks) ==
    IF breaks = <<>>
    THEN 0
    ELSE max(0, min(time_to_minutes(Head(breaks)[2]), x)
                - max(time_to_minutes(Head(breaks)[1]), e))
         + intersection_sum(e, x, Tail(breaks))

\* the exit of a pair on the unwrapped timeline
unwrapped_exit(entry_time, exit_time) ==
    IF time_to_minutes(exit_time) < time_to_minutes(entry_time)
    THEN time_to_minutes(exit_time) + 1440
    ELSE time_to_minutes(exit_time)

\* the entry and the exit of a pair after grace snapping
snapped_entry(entry_time, config, rls) ==
    LET late == time_to_minutes(entry_time) - time_to_minutes(config.begin_time)
    IN  IF 0 < late /\ late <= rls.grace_late_coming
        THEN time_to_minutes(config.begin_time)
        ELSE time_to_minutes(entry_time)

snapped_exit(entry_time, exit_time, config, rls) ==
    LET shift_end == IF time_to_minutes(config.end_time) < time_to_minutes(config.begin_time)
                     THEN time_to_minutes(config.end_time) + 1440
                     ELSE time_to_minutes(config.end_time)
        early == shift_end - unwrapped_exit(entry_time, exit_time)
    IN  IF 0 < early /\ early <= rls.grace_early_going
        THEN shift_end
        ELSE unwrapped_exit(entry_time, exit_time)

\* C1: calculate_duration returns exit - entry when exit >= entry; when
\* exit < entry it returns (1440 - entry) + exit if midnight spanning is
\* allowed and 0 if it is not.
C1_CalculateDuration ==
    called = "calculate_duration" =>
        LET e == time_to_minutes(args.entry_time)
            x == time_to_minutes(args.exit_time)
        IN  /\ x >= e => result = x - e
            /\ x < e /\ rules.allow_midnight_shift => result = (1440 - e) + x
            /\ x < e /\ ~rules.allow_midnight_shift => result = 0

\* 08:50 -> 00:01 gives 911 where spanning is allowed, and a wrapping pair
\* gives 0 where it is not
C1_Witness ==
    /\ called = "calculate_duration"
    /\ args.entry_time = time(8, 50)
    /\ args.exit_time = time(0, 1)
    /\ \/ rules.allow_midnight_shift /\ result = 911
       \/ ~rules.allow_midnight_shift /\ result = 0

\* C2: deduct_breaks returns the sum over all windows of
\* max(0, min(breakEnd, exit') - max(breakStart, entry)), where exit' is the
\* exit moved to the next day when it is earlier than the entry.
C2_DeductBreaksIsIntersectionSum ==
    called = "deduct_breaks" =>
        result = intersection_sum(time_to_minutes(args.entry_time),
                                  unwrapped_exit(args.entry_time, args.exit_time),
                                  args.breaks)

\* C7: apply_grace_time snaps the entry to the shift start exactly when
\* 0 < entry - shiftStart <= graceLate, the exit to the shift end exactly when
\* 0 < shiftEnd - exit <= graceEarly, and returns max(0, exit - entry).
C7_ApplyGraceTime ==
    called = "apply_grace_time" =>
        result = max(0, snapped_exit(args.entry_time, args.exit_time, shift_config, rules)
                        - snapped_entry(args.entry_time, shift_config, rules))

\* 09:05 -> 17:00 on the 09:00-18:00 shift with grace 10/10: the entry is
\* snapped and the result is 480
C7_Witness ==
    /\ called = "apply_grace_time"
    /\ shift_config = SHIFTS_General
    /\ rules.grace_late_coming = 10
    /\ args.entry_time = time(9, 5)
    /\ args.exit_time = time(17, 0)
    /\ snapped_entry(args.entry_time, shift_config, rules) = 540
    /\ result = 480

\* C8: whenever grace snapping changes the entry or the exit of a pair, the
\* break minutes subtracted from the grace-adjusted span are the break overlap
\* of the snapped interval.
C8_BreaksOfSnappedInterval ==
    called = "pair_loop" /\ rules.deduct_break_hours /\ result.grace_adjusted > 0 =>
        LET se == snapped_entry(result.entry, shift_config, rules)
            sx == snapped_exit(result.entry, result.exit, shift_config, rules)
        IN  se # time_to_minutes(result.entry)
            \/ sx # unwrapped_exit(result.entry, result.exit)
            => /\ result.break_mins = intersection_sum(se, sx, shift_config.breaks)
               /\ result.duration = result.grace_adjusted - result.break_mins

\* C9: a pair (t, t) has raw duration 0, break overlap 0, and is credited 0
\* net minutes by the pair loop, grace step included.
C9_ZeroLengthPair ==
    called = "pair_loop" /\ result.entry = result.exit =>
        /\ result.raw = 0
        /\ result.break_mins = 0
        /\ result.credited = 0

\* C10: with midnight spanning allowed and entry # exit,
\* calculate_duration(entry, exit) + calculate_duration(exit, entry) = 1440.
C10_WrapAroundComplement ==
    called = "calculate_duration"
    /\ rules.allow_midnight_shift
    /\ args.entry_time # args.exit_time
    => result + calculate_duration(args.exit_time, args.entry_time) = 1440

\* 22:00 -> 06:00 is 480 and the reverse pair 960
C10_Witness ==
    /\ called = "calculate_duration"
    /\ rules.allow_midnight_shift
    /\ args.entry_time = time(22, 0)
    /\ args.exit_time = time(6, 0)
    /\ result = 480
    /\ calculate_duration(args.exit_time, args.entry_time) = 960

\* C11: deduct_breaks is monotonic: for a fixed list of break windows, a pair
\* whose worked interval contains that of another pair (entry no later, exit
\* no earlier on the unwrapped timeline) has a break overlap at least as large.
C11_DeductBreaksMonotonic ==
    called = "deduct_breaks" =>
        \A e \in WallTimes, x \in WallTimes :
            /\ time_to_minutes(e) <= time_to_minutes(args.entry_time)
            /\ unwrapped_exit(e, x) >= unwrapped_exit(args.entry_time, args.exit_time)
            => deduct_breaks(e, x, args.breaks) >= result

\* the pair was snapped: the employee arrived late or left early within grace
snapped(entry_time, exit_time, config, rls) ==
    \/ snapped_entry(entry_time, config, rls) # time_to_minutes(entry_time)
    \/ snapped_exit(entry_time, exit_time, config, rls) # unwrapped_exit(entry_time, exit_time)

\* C12 as stated: for a pair in which the employee arrived late or left early,
\* the minutes credited with grace applied do not exceed the minutes credited
\* without snapping.
C12_GraceNeverIncreases ==
    /\ called = "apply_grace_time"
       /\ snapped(args.entry_time, args.exit_time, shift_config, rules)
       => result <= max(0, unwrapped_exit(args.entry_time, args.exit_time)
                           - time_to_minutes(args.entry_time))
    /\ called = "pair_loop"
       /\ snapped(result.entry, result.exit, shift_config, rules)
       => result.credited <= max(0, result.raw - result.break_mins)

\* C12 as amended: for a pair in which the employee arrived late or left
\* early, the minutes credited with grace applied are never fewer than the
\* minutes credited without snapping, and apply_grace_time adds at most the two
\* grace allowances to the span of the pair.
C12_GraceNeverDecreases ==
    /\ called = "apply_grace_time"
       /\ snapped(args.entry_time, args.exit_time, shift_config, rules)
       => LET span == max(0, unwrapped_exit(args.entry_time, args.exit_time)
                             - time_to_minutes(args.entry_time))
          IN  /\ result >= span
              /\ result <= span + rules.grace_late_coming + rules.grace_early_going
    /\ called = "pair_loop"
       /\ snapped(result.entry, result.exit, shift_config, rules)
       => result.credited >= max(0, result.raw - result.break_mins)

\* 09:05 -> 20:25 on the 09:00-20:30 shift: both ends are snapped and the
\* pair loop credits more than the 620 minutes of the unsnapped pair
C12_Witness ==
    /\ called = "pair_loop"
    /\ shift_config = SHIFTS_Shift
    /\ rules = CATEGORY_RULES_ContWorked
    /\ result.entry = time(9, 5)
    /\ result.exit = time(20, 25)
    /\ snapped(result.entry, result.exit, shift_config, rules)
    /\ result.raw - result.break_mins = 620
    /\ result.credited = 630

\* C25: under the default Shift policy calculate_cross_midnight_hours of an
\* entry late in the evening of day 1 and an exit at or just after midnight is
\* the whole wrapped duration (1440 - entry) + exit, with no break minutes
\* deducted; 20:37 -> 00:00 gives 203.
C25_CrossMidnightHoursUndeducted ==
    called = "calculate_cross_midnight_hours"
    /\ shift_config = SHIFTS_Shift
    /\ rules = CATEGORY_RULES_ContWorked
    /\ time_to_minutes(args.entry_time) >= 20 * 60
    /\ time_to_minutes(args.exit_time) <= 1
    => result = (24 * 60 - time_to_minutes(args.entry_time))
                + time_to_minutes(args.exit_time)

----------------------------------------------------------------------------
(* Properties of pair-by-pair mode, checked under SpecPunches *)

\* the minutes credited to the pairs at positions (1,2), (3,4), ..., (2k-1,2k)
RECURSIVE positional_total(_, _, _)
positional_total(d, k, use_reference) ==
    IF k = 0
    THEN 0
    ELSE positional_total(d, k - 1, use_reference)
         + pair_minutes(d[2 * k - 1], d[2 * k], use_reference).credited

\* the same, leaving out every pair whose exit is earlier than its entry
RECURSIVE forward_total(_, _, _)
forward_total(d, k, use_reference) ==
    IF k = 0
    THEN 0
    ELSE LET pair == pair_minutes(d[2 * k - 1], d[2 * k], use_reference)
         IN  forward_total(d, k - 1, use_reference)
             + (IF time_to_minutes(pair.exit) < time_to_minutes(pair.entry)
                THEN 0 ELSE pair.credited)

\* C5: pairs are the positions (0,1), (2,3), ... of the deduplicated sequence
\* in recorded order, and with an odd count the last punch adds 0 minutes:
\* the total is that of the sequence without it.
C5_PairsByPosition ==
    /\ called = "calculate_working_hours" =>
          LET d == deduplicate(args.punches)
          IN  /\ result = positional_total(d, Len(d) \div 2, args.day = "day1")
              /\ Len(d) % 2 = 1 =>
                    result = calculate_working_hours(SubSeq(d, 1, Len(d) - 1), args.day)
    /\ called = "analyze_punch_pairs" =>
          LET d == deduplicate(args.punches)
          IN  /\ Len(result.pairs) = Len(d) \div 2
              /\ \A k \in 1..Len(result.pairs) :
                    /\ result.pairs[k].entry = d[2 * k - 1]
                    /\ result.pairs[k].exit = d[2 * k]
              /\ Len(d) % 2 = 1 =>
                    result.total_minutes =
                        analyze_punch_pairs(SubSeq(d, 1, Len(d) - 1), args.custom_breaks).total_minutes

\* three distinct punches recorded out of chronological order: one pair,
\* formed from the first two as recorded, and a last punch left over
C5_Witness ==
    /\ called = "calculate_working_hours"
    /\ Len(deduplicate(args.punches)) = 3
    /\ time_to_minutes(args.punches[2]) < time_to_minutes(args.punches[1])
    /\ time_to_minutes(args.punches[Len(args.punches)]) > time_to_minutes(args.punches[2])
    /\ result > 0

\* C6: when allow_midnight_shift is false, every pair whose exit is earlier
\* than its entry contributes 0 minutes to the total of calculate_working_hours
\* and of total-span mode.
C6_DisallowedWrapAddsNothing ==
    ~rules.allow_midnight_shift =>
        /\ called = "calculate_working_hours" =>
              LET d == deduplicate(args.punches)
              IN  result = forward_total(d, Len(d) \div 2, args.day = "day1")
        /\ called = "calculate_working_hours_total_span" =>
              LET later(punch) == time_to_minutes(punch) >= time_to_minutes(reference_time)
                  d == IF args.day = "day1"
                       THEN SelectSeq(deduplicate(args.punches), later)
                       ELSE deduplicate(args.punches)
              IN  Len(d) >= 2 /\ time_to_minutes(d[Len(d)]) < time_to_minutes(d[1])
                  => result = 0

\* the index of the first occurrence of the punch t in punches
first_index(punches, t) ==
    CHOOSE i \in 1..Len(punches) :
        punches[i] = t /\ \A j \in 1..(i - 1) : punches[j] # t

\* the punches of the pairs and the unpaired punch of an analysis, in order
RECURSIVE analysed_punches(_)
analysed_punches(analysis) ==
    IF analysis.pairs = <<>>
    THEN IF analysis.unpaired = <<>> THEN <<>> ELSE << analysis.unpaired[1].punch >>
    ELSE << Head(analysis.pairs).entry, Head(analysis.pairs).exit >>
         \o analysed_punches([analysis EXCEPT !.pairs = Tail(analysis.pairs)])

\* d holds every distinct punch of punches once, in the order of the first
\* occurrences, and nothing else
first_occurrences(punches, d) ==
    /\ Range(d) = Range(punches)
    /\ \A i, j \in 1..Len(d) : i # j => d[i] # d[j]
    /\ \A i, j \in 1..Len(d) :
          i < j => first_index(punches, d[i]) < first_index(punches, d[j])

\* C13: the deduplicated sequence holds each distinct punch time exactly once,
\* at the position of its first occurrence; later identical punches are
\* dropped wherever they appear, and nothing else is dropped or reordered.
\* The punches analyze_punch_pairs reports are that sequence.
C13_KeepsFirstOccurrences ==
    /\ called = "deduplicate" => first_occurrences(args.punches, result)
    /\ called = "analyze_punch_pairs"
       => /\ first_occurrences(args.punches, analysed_punches(result))
          /\ result.total_punches = Cardinality(Range(args.punches))

\* a punch repeated after another punch is dropped, the punches after it stay
C13_Witness ==
    /\ called = "deduplicate"
    /\ Len(args.punches) = 4
    /\ args.punches[3] = args.punches[1]
    /\ args.punches[2] # args.punches[1]
    /\ args.punches[4] \notin { args.punches[1], args.punches[2] }
    /\ result = << args.punches[1], args.punches[2], args.punches[4] >>

\* C14: deduplication is idempotent: deduplicating a deduplicated sequence
\* gives that sequence again.
C14_DedupIdempotent ==
    called = "deduplicate" => deduplicate(result) = result

\* a punch recorded three times, and another punch
C14_Witness ==
    /\ called = "deduplicate"
    /\ Cardinality({ i \in 1..Len(args.punches) : args.punches[i] = args.punches[1] }) = 3
    /\ Len(result) = 2
    /\ deduplicate(result) = result

\* the usage example analysed with the breaks of the shift as shipped
example_analysed ==
    /\ called = "analyze_punch_pairs"
    /\ args.punches = ExamplePunches
    /\ args.custom_breaks = <<>>
    /\ shift_config = SHIFTS_Shift

\* three pairs of 105, 285 and 242 raw minutes, 20:36 left unpaired and adding
\* nothing to the total
example_pairs ==
    /\ result.total_punches = 7
    /\ result.complete_pairs = 3
    /\ Len(result.pairs) = 3
    /\ result.pairs[1].entry = time(9, 0) /\ result.pairs[1].exit = time(10, 45)
    /\ result.pairs[2].entry = time(11, 0) /\ result.pairs[2].exit = time(15, 45)
    /\ result.pairs[3].entry = time(16, 0) /\ result.pairs[3].exit = time(20, 2)
    /\ result.pairs[1].raw_duration_mins = 105
    /\ result.pairs[2].raw_duration_mins = 285
    /\ result.pairs[3].raw_duration_mins = 242
    /\ result.unpaired # <<>>
    /\ result.unpaired[1].punch = time(20, 36)
    /\ result.total_minutes = result.pairs[1].final_duration_mins
                              + result.pairs[2].final_duration_mins
                              + result.pairs[3].final_duration_mins

\* C15 as stated: the punches 09:00, 09:00, 10:45, 11:00, 15:45, 16:00, 20:02,
\* 20:36 under the default Shift policy give exactly three pairs of 105, 285
\* and 242 raw minutes and the unpaired punch 20:36, flagged as a likely
\* clock-in and adding nothing to the total.
C15_ExampleClockIn ==
    example_analysed =>
        example_pairs /\ result.unpaired[1].likely_type = "Clock IN (entry)"

\* C15 as amended: the same pairs and the same unpaired punch, flagged as a
\* likely clock-out because three complete pairs precede it.
C15_ExampleClockOut ==
    example_analysed =>
        example_pairs /\ result.unpaired[1].likely_type = "Clock OUT (exit)"

C15_Witness ==
    /\ example_analysed
    /\ rules = CATEGORY_RULES_ContWorked
    /\ result.total_minutes = 602
    /\ result.unpaired # <<>>
    /\ result.unpaired[1].position = 7

\* C16: with an odd number of deduplicated punches the last punch is reported
\* unpaired, as an entry when the number of complete pairs before it is even
\* and as an exit when it is odd; with an even number nothing is reported
\* unpaired.
C16_UnpairedDirection ==
    called = "analyze_punch_pairs" =>
        LET n == Cardinality(Range(args.punches))
        IN  IF n % 2 = 1
            THEN /\ result.unpaired # <<>>
                 /\ result.unpaired[1].punch = analysed_punches(result)[n]
                 /\ result.unpaired[1].position = n
                 /\ result.complete_pairs = (n - 1) \div 2
                 /\ result.unpaired[1].likely_type =
                        IF ((n - 1) \div 2) % 2 = 0
                        THEN "Clock IN (entry)"
                        ELSE "Clock OUT (exit)"
            ELSE result.unpaired = <<>>

\* three distinct punches among four: one pair, and the last an exit
C16_Witness ==
    /\ called = "analyze_punch_pairs"
    /\ Len(args.punches) = 4
    /\ result.total_punches = 3
    /\ result.complete_pairs = 1
    /\ result.unpaired # <<>>
    /\ result.unpaired[1].punch = args.punches[4]
    /\ result.unpaired[1].likely_type = "Clock OUT (exit)"

\* C20: the net minutes of every pair reported (raw minutes less the break
\* overlap) are never negative, whatever the policy and the list of breaks,
\* and neither is the total of the pair loop.
C20_NetMinutesNonNegative ==
    /\ called = "analyze_punch_pairs"
       => \A k \in 1..Len(result.pairs) : result.pairs[k].final_duration_mins >= 0
    /\ called = "calculate_working_hours" => result >= 0

\* C26: in calculate_working_hours for day 1 only time from 09:00 on is
\* counted: a pair with entry and exit before 09:00 adds nothing, and a pair
\* with its entry before 09:00 and its exit at or after 09:00 adds the minutes
\* from 09:00 to its exit, less the breaks between them.
C26_Day1CountsFromReference ==
    called = "calculate_working_hours"
    /\ args.day = "day1"
    /\ Len(deduplicate(args.punches)) = 2
    /\ time_to_minutes(deduplicate(args.punches)[1]) < time_to_minutes(reference_time)
    => LET exit_time == deduplicate(args.punches)[2]
           from_reference == time_to_minutes(exit_time) - time_to_minutes(reference_time)
           breaks_after == IF rules.deduct_break_hours
                           THEN intersection_sum(time_to_minutes(reference_time),
                                                 time_to_minutes(exit_time),
                                                 shift_config.breaks)
                           ELSE 0
       IN  IF time_to_minutes(exit_time) < time_to_minutes(reference_time)
           THEN result = 0
           ELSE result = max(0, from_reference - breaks_after)

\* the positions of the punches total-span mode keeps: the first occurrence
\* of each time, for day 1 only of the times from 09:00 on
span_positions(punches, day) ==
    { i \in 1..Len(punches) :
        /\ \A j \in 1..(i - 1) : punches[j] # punches[i]
        /\ day = "day1" => time_to_minutes(punches[i]) >= time_to_minutes(reference_time) }

\* C27: total-span mode returns max(0, duration(first, last) - break overlap
\* of (first, last)), first and last being the first and the last punch of the
\* deduplicated (for day 1, filtered) sequence in recorded order, and 0 when
\* fewer than two punches remain; no other punch has a part in the result.
\* (The overlap is deducted when the policy deducts breaks.)
C27_TotalSpanFirstToLast ==
    called = "calculate_working_hours_total_span" =>
        LET kept == span_positions(args.punches, args.day)
        IN  IF Cardinality(kept) < 2
            THEN result = 0
            ELSE LET first == args.punches[CHOOSE i \in kept : \A j \in kept : i <= j]
                     last == args.punches[CHOOSE i \in kept : \A j \in kept : i >= j]
                     overlap == IF rules.deduct_break_hours
                                THEN deduct_breaks(first, last, shift_config.breaks)
                                ELSE 0
                 IN  result = max(0, calculate_duration(first, last) - overlap)

\* day 1, 08:50 filtered out: the span runs
\* from 09:05 to 20:25 and 13:15 between them changes nothing
C27_Witness ==
    /\ called = "calculate_working_hours_total_span"
    /\ args.day = "day1"
    /\ args.punches = << time(8, 50), time(9, 5), time(13, 15), time(20, 25) >>
    /\ rules = CATEGORY_RULES_ContWorked
    /\ shift_config = SHIFTS_Shift
    /\ result = 680 - 60

\* C29: the worked minutes computed for one day of an employee never exceed
\* the 1440 minutes of a day, whatever the order of the punches, in
\* pair-by-pair mode and in total-span mode.
C29_AtMostADay ==
    called \in { "calculate_working_hours", "calculate_working_hours_total_span" }
    => result <= 24 * 60

----------------------------------------------------------------------------
(* Properties of the reconciliation, checked under SpecReconcile *)

\* C3: with non-empty day1 and day2, every day2 punch at or before the boundary
\* 07:15 (a punch exactly at 07:15 included) is removed from day2 and appended
\* to day1 in its original relative order, and every later punch stays in day2.
C3_MigratesUpToBoundary ==
    called = "detect_cross_midnight_shift"
    /\ args.day1_punches # <<>> /\ args.day2_punches # <<>>
    => LET tail(punch) == time_to_minutes(punch) <= 7 * 60 + 15
           rest(punch) == time_to_minutes(punch) > 7 * 60 + 15
       IN  /\ result.day1_punches = args.day1_punches \o SelectSeq(args.day2_punches, tail)
           /\ result.day2_punches = SelectSeq(args.day2_punches, rest)

\* the punches appended to the day-1 list by the call
moved_punches ==
    SubSeq(result.day1_punches, Len(args.day1_punches) + 1, Len(result.day1_punches))

\* C17: detect_cross_midnight_shift returns a cross-midnight record exactly
\* when at least one day-2 punch was moved into day 1, and the record lists
\* exactly the moved punches in their day-2 order; when nothing was moved it
\* returns no record and both lists unchanged.
C17_RecordIffMigrated ==
    called = "detect_cross_midnight_shift" =>
        LET gone(punch) == punch \notin Range(result.day2_punches)
            kept(punch) == punch \in Range(result.day2_punches)
        IN  /\ SubSeq(result.day1_punches, 1, Len(args.day1_punches)) = args.day1_punches
            /\ result.cross_info # <<>> <=> moved_punches # <<>>
            /\ result.cross_info # <<>> <=> result.day2_punches # args.day2_punches
            /\ result.cross_info # <<>>
               => /\ result.cross_info[1].early_morning_punches = moved_punches
                  /\ moved_punches = SelectSeq(args.day2_punches, gone)
                  /\ result.day2_punches = SelectSeq(args.day2_punches, kept)
            /\ result.cross_info = <<>>
               => /\ result.day1_punches = args.day1_punches
                  /\ result.day2_punches = args.day2_punches

\* two punches moved from around a punch that stays
C17_Witness ==
    /\ called = "detect_cross_midnight_shift"
    /\ Len(args.day1_punches) = 2
    /\ Len(args.day2_punches) = 3
    /\ result.cross_info # <<>>
    /\ result.cross_info[1].early_morning_punches = << args.day2_punches[1], args.day2_punches[3] >>
    /\ args.day2_punches[1] # args.day2_punches[3]
    /\ result.day2_punches = << args.day2_punches[2] >>

\* C18: with an empty day-1 list or an empty day-2 list the reconciliation
\* returns both lists unchanged and no record; with day 1 empty the
\* early-morning punches of day 2 stay in day 2.
C18_EmptyDayUnchanged ==
    called = "detect_cross_midnight_shift"
    /\ (args.day1_punches = <<>> \/ args.day2_punches = <<>>)
    => /\ result.day1_punches = args.day1_punches
       /\ result.day2_punches = args.day2_punches
       /\ result.cross_info = <<>>

\* day 1 empty and 00:01 among the punches of day 2
C18_Witness ==
    /\ called = "detect_cross_midnight_shift"
    /\ args.day1_punches = <<>>
    /\ time(0, 1) \in Range(args.day2_punches)
    /\ time(0, 1) \in Range(result.day2_punches)
    /\ result.day1_punches = <<>>

\* C24: the record of a detected cross-midnight shift has is_cross_midnight
\* true and a duration_mins equal to the minutes from the last punch of day 1
\* to the punch moved from after midnight (203 for 20:37 and 00:00).
C24_RecordCarriesDuration ==
    called = "detect_cross_midnight_shift" /\ result.cross_info # <<>> =>
        LET info == result.cross_info[1]
            last_day1 == args.day1_punches[Len(args.day1_punches)]
            moved == info.early_morning_punches[Len(info.early_morning_punches)]
        IN  /\ info.is_cross_midnight
            /\ "duration_mins" \in DOMAIN info
            /\ info.duration_mins
               = (24 * 60 - time_to_minutes(last_day1)) + time_to_minutes(moved)

\* the number of times the punch t is in punches
occurrences(punches, t) == Cardinality({ i \in DOMAIN punches : punches[i] = t })

\* c is made of the elements of a and of b, each sequence in its own order
RECURSIVE interleaving(_, _, _)
interleaving(a, b, c) ==
    IF c = <<>>
    THEN a = <<>> /\ b = <<>>
    ELSE \/ a # <<>> /\ Head(a) = Head(c) /\ interleaving(Tail(a), b, Tail(c))
         \/ b # <<>> /\ Head(b) = Head(c) /\ interleaving(a, Tail(b), Tail(c))

\* C28: reconciliation neither loses nor invents punches: the adjusted lists
\* together hold exactly the punches of day 1 and day 2, as many times each,
\* and punches that came from the same day keep their order.
C28_PunchesConserved ==
    called = "detect_cross_midnight_shift" =>
        LET from_day2 == SubSeq(result.day1_punches, Len(args.day1_punches) + 1,
                                Len(result.day1_punches))
        IN  /\ \A t \in Day1Times \cup Day2Times :
                  occurrences(result.day1_punches, t) + occurrences(result.day2_punches, t)
                  = occurrences(args.day1_punches, t) + occurrences(args.day2_punches, t)
            /\ Len(result.day1_punches) >= Len(args.day1_punches)
            /\ SubSeq(result.day1_punches, 1, Len(args.day1_punches)) = args.day1_punches
            /\ interleaving(from_day2, result.day2_punches, args.day2_punches)

\* a punch recorded twice on day 2 before the boundary is moved twice, the
\* punch after the boundary stays
C28_Witness ==
    /\ called = "detect_cross_midnight_shift"
    /\ args.day1_punches = << time(20, 37) >>
    /\ args.day2_punches = << time(0, 0), time(9, 0), time(0, 0) >>
    /\ result.day1_punches = << time(20, 37), time(0, 0), time(0, 0) >>
    /\ result.day2_punches = << time(9, 0) >>

----------------------------------------------------------------------------
(* Properties of the batch run, checked under Spec *)

\* the loop of process has visited the employee
processed(emp_code) ==
    /\ pc \in { "process", "done" }
    /\ emp_code \in DOMAIN employees
    /\ emp_code \notin Range(todo)

\* C4: for every employee with day1 punches and a day2 punch before the
\* boundary, the migrated punches take part in the computation of day1's
\* duration: day1's worked minutes run from the first counted day1 punch to the
\* last migrated punch, and are not cut off at the last punch recorded on day1.
C4_Day1SpansMigratedPunches ==
    \A emp_code \in DOMAIN employees :
        processed(emp_code) /\ employees[emp_code].cross_day_shift # <<>> =>
            LET emp == employees[emp_code]
                migrated == emp.cross_day_shift[1].early_morning_punches
                recorded == SubSeq(emp.day1_punches, 1, Len(emp.day1_punches) - Len(migrated))
                counted == filter_day1(recorded)
                first == counted[1]
                last == migrated[Len(migrated)]
            IN  counted # <<>> =>
                    emp.day1_hours =
                        max(0, calculate_duration(first, last)
                               - deduct_breaks(first, last, shift_config.breaks))

\* C19: at the end of a batch run the stored worked minutes of day 1 and of
\* day 2 of every employee are the worked minutes of the punch lists stored
\* for that employee after reconciliation; no total is left over from a list
\* as it was before punches were moved.
C19_HoursOfStoredPunches ==
    pc = "done" =>
        \A emp_code \in DOMAIN employees :
            LET emp == employees[emp_code]
            IN  /\ emp.day1_hours
                   = calculate_working_hours_total_span(emp.day1_punches, "day1")
                /\ emp.day2_hours
                   = calculate_working_hours_total_span(emp.day2_punches, "day2")

----------------------------------------------------------------------------
(* Properties of the parsing of breaks, checked under SpecParse *)

\* the tokens of a break specification: its non-blank pieces between commas
tokens(breaks_str) == stripped_nonblank(split(breaks_str, ","))

\* a field reads as a time when it is one time text between blanks
time_field(field) ==
    \E i \in 1..Len(field) :
        /\ field[i] \in TimeTexts
        /\ \A j \in 1..Len(field) : j # i => field[j] = " "

\* a token with no "-", with more or fewer than two fields, or with a field
\* that is not a time
malformed(token) ==
    LET dashes == { i \in 1..Len(token) : token[i] = "-" }
    IN  \/ dashes = {}
        \/ Cardinality(dashes) # 1
        \/ \E i \in dashes :
              \/ ~time_field(SubSeq(token, 1, i - 1))
              \/ ~time_field(SubSeq(token, i + 1, Len(token)))

some_malformed(breaks_str) ==
    \E k \in 1..Len(tokens(breaks_str)) : malformed(tokens(breaks_str)[k])

\* C21: parse_breaks fails for every break specification with a token that has
\* no "-", a wrong number of fields or an unparsable time: nothing is
\* returned then, not even the windows of the well-formed tokens, and main
\* exits without a list of breaks; a specification is read without error only
\* when every token gave a window.
C21_MalformedBreaksFail ==
    /\ called = "parse_breaks"
       => /\ some_malformed(args.breaks_str) => result.raised /\ result.breaks = <<>>
          /\ ~result.raised => Len(result.breaks) = Len(tokens(args.breaks_str))
    /\ called = "main" /\ args.argument # <<>> /\ some_malformed(args.argument[1])
       => result.exit = 1 /\ result.custom_breaks = <<>>

\* a well-formed token followed by a malformed one
C21_Witness ==
    /\ called = "parse_breaks"
    /\ Len(tokens(args.breaks_str)) = 2
    /\ ~malformed(tokens(args.breaks_str)[1])
    /\ malformed(tokens(args.breaks_str)[2])
    /\ result.raised
    /\ result.breaks = <<>>

\* C22: every break window the engine works with, those of the shifts as
\* configured and those parse_breaks accepts, has its start before its end.
C22_BreakStartsBeforeEnd ==
    /\ \A config \in { SHIFTS_General, SHIFTS_Maintenance, SHIFTS_Shift } :
          \A k \in 1..Len(config.breaks) :
              time_to_minutes(config.breaks[k][1]) < time_to_minutes(config.breaks[k][2])
    /\ called = "parse_breaks"
       => \A k \in 1..Len(result.breaks) :
              time_to_minutes(result.breaks[k][1]) < time_to_minutes(result.breaks[k][2])

\* C30 as stated: for every employee in the report the total worked time is
\* the worked time of day 1 plus that of day 2 (the sum of the two columns, or
\* the sum of the minutes in hours).
C30_TotalIsSumOfDays ==
    pc = "done" =>
        \A i \in 1..Len(report) :
            LET emp == employees[report[i].emp_code]
            IN  \/ report[i].total_hours = report[i].day1_hours + report[i].day2_hours
                \/ report[i].total_hours
                   = minutes_to_decimal_hours(emp.day1_hours + emp.day2_hours)

\* C30 as amended: for every employee in the report the total worked time is
\* the worked time of day 1 alone, in hours; the worked time of day 2 is
\* reported in its own column and is no part of the total.
C30_TotalIsDay1 ==
    pc = "done" =>
        \A i \in 1..Len(report) :
            LET emp == employees[report[i].emp_code]
            IN  /\ report[i].day1_hours = minutes_to_decimal_hours(emp.day1_hours)
                /\ report[i].day2_hours = minutes_to_decimal_hours(emp.day2_hours)
                /\ report[i].total_hours = minutes_to_decimal_hours(emp.day1_hours)

\* an employee reported with worked time on both days
C30_Witness ==
    /\ pc = "done"
    /\ \E i \in 1..Len(report) :
          /\ report[i].day1_hours > 0
          /\ report[i].day2_hours > 0
          /\ report[i].total_hours = report[i].day1_hours

----------------------------------------------------------------------------
(* Properties of a whole batch run, checked under SpecProcess *)

\* the rows of a file that are records of the employee
own_rows(file, emp_code) ==
    LET own(row) == row.emp_code = emp_code
    IN  SelectSeq(file, own)

\* C23: the punch lists, worked minutes and cross-midnight flag a batch run
\* computes for an employee are those of the run over the employee's own
\* records alone: the records of other employees, and the place of the
\* employee in the order of processing, do not change them.
C23_EmployeesIndependent ==
    called = "process" =>
        \A emp_code \in EmpCodes :
            LET alone == process(own_rows(args.day1_file, emp_code),
                                 own_rows(args.day2_file, emp_code))
            IN  /\ emp_code \in DOMAIN result <=> emp_code \in DOMAIN alone
                /\ emp_code \in DOMAIN result => result[emp_code] = alone[emp_code]

\* employee 30 is processed after employee 29, whose punches were moved, and
\* has no punch moved
C23_Witness ==
    /\ called = "process"
    /\ DOMAIN result = { 29, 30 }
    /\ Len(args.day1_file) = 2
    /\ args.day1_file[1].emp_code = 29
    /\ args.day1_file[2].emp_code = 30
    /\ result[29].cross_day_shift # <<>>
    /\ result[29].day1_hours > 0
    /\ result[30].cross_day_shift = <<>>
    /\ result[30].day1_hours = 0
    /\ result[30].day2_hours > 0

====
